---- MODULE Spec2Model ----
(***************************************************************************)
(* Model of dhcpv6/dhcpv6relay.go: the DHCPv6 relay envelope, its option   *)
(* list, and the three chain algorithms GetInnerMessage, GetInnerPeerAddr  *)
(* and NewRelayReplFromRelayForw.                                          *)
(*                                                                         *)
(* A DHCPv6 value is a record tagged by its dynamic type ("kind"):         *)
(*   [kind |-> "nil"]                     the nil interface value          *)
(*   [kind |-> "message", id |-> c]       a leaf (non-relay) message       *)
(*   [kind |-> "relay", messageType, hopCount, linkAddr, peerAddr,         *)
(*    options, inner]                     a *DHCPv6Relay                   *)
(* The inner field of a relay is the message it carries; on a damaged      *)
(* packet it is [kind |-> "truncated"] or [kind |-> "malformed"].          *)
(***************************************************************************)
EXTENDS Integers, Sequences, FiniteSets, TLC

VARIABLES
    fn,         \* the function or method this behaviour calls
    pc,         \* position inside the called function
    r,          \* receiver of a method call (r / d in the source)
    relayForw,  \* first argument of NewRelayReplFromRelayForw
    msg,        \* second argument of NewRelayReplFromRelayForw, rewrapped by the rewind loop
    option,     \* argument of AddOption / UpdateOption
    p,          \* cursor of GetInnerMessage / GetInnerPeerAddr
    relay,      \* cursor of the unwind loop of NewRelayReplFromRelayForw
    hops,       \* local of GetInnerPeerAddr
    addr,       \* local of GetInnerPeerAddr
    i,          \* loop index (GetInnerPeerAddr, rewind loop)
    linkAddr,   \* recorded link addresses, outermost first
    peerAddr,   \* recorded peer addresses, outermost first
    optiids,    \* recorded interface-id options (nil where absent)
    ret,        \* returned value
    err,        \* returned error
    decaps,     \* number of DecapsulateRelay calls made so far
    encaps,     \* number of EncapsulateRelay calls made so far
    encFailAt,  \* environment: which EncapsulateRelay call fails (0 = none)
    before      \* entry value of what the call overwrites: r's option list
                \* (AddOption, UpdateOption) or msg (NewRelayReplFromRelayForw)

vars == <<fn, pc, r, relayForw, msg, option, p, relay, hops, addr, i,
          linkAddr, peerAddr, optiids, ret, err, decaps, encaps, encFailAt, before>>

----------------------------------------------------------------------------
(* Bounds of the model *)

MaxDepth == 2       \* relay envelopes in a chain
NAddr == 2          \* distinct IPv6 addresses
MaxHop == 4         \* declared hop counts 0..MaxHop
MaxOpts == 2        \* options per forward envelope
MaxData == 2        \* distinct interface-id payloads

----------------------------------------------------------------------------
(* Values *)

nil == [kind |-> "nil"]
NoErr == "nil"

RELAY_FORW == "RELAY_FORW"
RELAY_REPL == "RELAY_REPL"
OPTION_INTERFACE_ID == "OPTION_INTERFACE_ID"
OPTION_REMOTE_ID == "OPTION_REMOTE_ID"

ErrTruncated == "MalformedChain: truncated bytes"
ErrMalformed == "MalformedChain: bad option framing"
ErrNotARelay == "NotARelay"
ErrEncapsulate == "EncapsulateRelay failed"

\* net.IP values; nil is the absent address
IP(n) == [kind |-> "ip", a |-> n]
Addr == {IP(n) : n \in 1..NAddr}

Opt(code, data) == [kind |-> "option", code |-> code, data |-> data]

Message(id) == [kind |-> "message", id |-> id]

DHCPv6Relay(messageType, hopCount, link, peer, options, inner) ==
    [kind |-> "relay", messageType |-> messageType, hopCount |-> hopCount,
     linkAddr |-> link, peerAddr |-> peer, options |-> options, inner |-> inner]

IsRelay(m) == m.kind = "relay"

----------------------------------------------------------------------------
(* Single-hop primitives and option lookup (collaborators of this file) *)

\* getOption(options, code): the first option with that code, or nil
RECURSIVE getOption(_, _)
getOption(options, code) ==
    IF options = <<>> THEN nil
    ELSE IF Head(options).code = code THEN Head(options)
    ELSE getOption(Tail(options), code)

\* DecapsulateRelay(l) -> (inner, err): strips exactly one relay layer
DecapsulateRelay(l) ==
    IF ~IsRelay(l) THEN [msg |-> nil, err |-> ErrNotARelay]
    ELSE IF l.inner.kind = "truncated" THEN [msg |-> nil, err |-> ErrTruncated]
    ELSE IF l.inner.kind = "malformed" THEN [msg |-> nil, err |-> ErrMalformed]
    ELSE [msg |-> l.inner, err |-> NoErr]

\* EncapsulateRelay(d, mType, link, peer) -> (wrapped, err): one new envelope
\* around d; fails is the environment's decision that this call fails.
EncapsulateRelay(d, mType, link, peer, fails) ==
    IF fails THEN [msg |-> nil, err |-> ErrEncapsulate]
    ELSE [msg |-> DHCPv6Relay(mType,
                              IF IsRelay(d) THEN (d.hopCount + 1) % 256 ELSE 0,
                              link, peer, <<>>, d),
          err |-> NoErr]

----------------------------------------------------------------------------
(* Methods of DHCPv6Relay *)

Type(m) == m.messageType
HopCount(m) == m.hopCount
LinkAddr(m) == m.linkAddr
PeerAddr(m) == m.peerAddr
SetHopCount(m, hopCount) == [m EXCEPT !.hopCount = hopCount]
\* Variant: the last option with that code instead of the first
GetLastOption(m, code) ==
    LET hits == {j \in 1..Len(m.options) : m.options[j].code = code} IN
    IF hits = {} THEN nil
    ELSE m.options[CHOOSE j \in hits : \A k \in hits : k <= j]

GetOneOption(m, code) == getOption(m.options, code)
AddOption(m, o) == [m EXCEPT !.options = Append(@, o)]

\* Variant: the scan keeps going and settles on the last match
LastIndex(options, code) ==
    IF \E idx \in 1..Len(options) : options[idx].code = code
    THEN CHOOSE idx \in 1..Len(options) :
            /\ options[idx].code = code
            /\ \A j \in (idx + 1)..Len(options) : options[j].code # code
    ELSE 0

\* UpdateOption replaces the first option of the same type as the specified
\* one; if not found, adds it.
FirstIndex(options, code) ==
    IF \E idx \in 1..Len(options) : options[idx].code = code
    THEN CHOOSE idx \in 1..Len(options) :
            /\ options[idx].code = code
            /\ \A j \in 1..(idx - 1) : options[j].code # code
    ELSE 0

UpdateOption(m, o) ==
    LET idx == FirstIndex(m.options, o.code) IN
    IF idx # 0 THEN [m EXCEPT !.options[idx] = o]
    ELSE AddOption(m, o)

----------------------------------------------------------------------------
(* Input packets *)

Broken == {[kind |-> "truncated"], [kind |-> "malformed"]}
Messages == {Message("C"), Message("R")}

\* A chain built from per-hop headers (outermost first) around a terminal;
\* hop counts follow the relay convention: 0 next to the client, +1 per layer.
RECURSIVE MkChain(_, _, _)
MkChain(hdrs, mType, terminal) ==
    IF hdrs = <<>> THEN terminal
    ELSE LET in == MkChain(Tail(hdrs), mType, terminal) IN
         DHCPv6Relay(mType, IF IsRelay(in) THEN in.hopCount + 1 ELSE 0,
                     Head(hdrs).link, Head(hdrs).peer, Head(hdrs).options, in)

\* Envelope k of a chain (0 = outermost); Depth counts its envelopes
RECURSIVE Env(_, _)
Env(m, k) == IF k = 0 THEN m ELSE Env(m.inner, k - 1)

RECURSIVE Depth(_)
Depth(m) == IF IsRelay(m) THEN 1 + Depth(m.inner) ELSE 0

Terminal(m) == Env(m, Depth(m))
WellFormed(m) == Terminal(m).kind = "message"

WalkHdrs ==
    UNION {[1..d -> [link : Addr, peer : Addr,
                     options : {<<>>, <<Opt(OPTION_INTERFACE_ID, 1)>>}]] : d \in 1..MaxDepth}

PlainHdrs ==
    UNION {[1..d -> [link : {IP(1)}, peer : {IP(2)}, options : {<<>>}]] : d \in 1..MaxDepth}

WalkChains == {MkChain(h, RELAY_FORW, t) : h \in WalkHdrs, t \in Messages \cup Broken}

InitWalk ==
    /\ pc = "start"
    /\ \/ /\ fn = "GetInnerMessage"
          /\ r \in WalkChains
       \/ /\ fn = "GetInnerPeerAddr"
          /\ r \in {SetHopCount(c, h) : c \in WalkChains, h \in 0..MaxHop}
    /\ encFailAt = 0
    /\ relayForw = nil /\ msg = nil /\ option = nil
    /\ p = nil /\ relay = nil /\ hops = 0 /\ addr = nil /\ i = 0
    /\ linkAddr = <<>> /\ peerAddr = <<>> /\ optiids = <<>>
    /\ ret = nil /\ err = NoErr /\ decaps = 0 /\ encaps = 0
    /\ before = <<>>

Return(value, error) ==
    /\ ret' = value
    /\ err' = error
    /\ pc' = "done"

----------------------------------------------------------------------------
(* GetInnerMessage: recurse into a relay message and return the inner     *)
(* DHCPv6 message.                                                         *)

GetInnerMessage_Enter ==
    /\ fn = "GetInnerMessage" /\ pc = "start"
    /\ p' = r
    /\ pc' = "gim_loop"
    /\ UNCHANGED <<fn, r, relayForw, msg, option, relay, hops, addr, i, linkAddr,
                   peerAddr, optiids, ret, err, decaps, encaps, encFailAt, before>>

\* Variant: the loop returns its cursor without testing IsRelay
GetInnerMessage_FoundUnchecked ==
    /\ pc = "gim_loop"
    /\ Return(p, NoErr)
    /\ UNCHANGED <<fn, r, relayForw, msg, option, p, relay, hops, addr, i, linkAddr,
                   peerAddr, optiids, decaps, encaps, encFailAt, before>>

GetInnerMessage_Found ==
    /\ pc = "gim_loop"
    /\ ~IsRelay(p)
    /\ Return(p, NoErr)
    /\ UNCHANGED <<fn, r, relayForw, msg, option, p, relay, hops, addr, i, linkAddr,
                   peerAddr, optiids, decaps, encaps, encFailAt, before>>

GetInnerMessage_Decap ==
    /\ pc = "gim_loop"
    /\ IsRelay(p)
    /\ LET d == DecapsulateRelay(p) IN
       /\ decaps' = decaps + 1
       /\ p' = d.msg
       /\ IF d.err # NoErr
          THEN Return(nil, d.err)
          ELSE UNCHANGED <<pc, ret, err>>
    /\ UNCHANGED <<fn, r, relayForw, msg, option, relay, hops, addr, i, linkAddr,
                   peerAddr, optiids, encaps, encFailAt, before>>

----------------------------------------------------------------------------
(* GetInnerPeerAddr: the peer address in the innermost relay header,      *)
(* bounded by the receiver's own hop count.                                *)

\* Variant: the loop runs while i <= hops, one decapsulation too many
GetInnerPeerAddr_EnterOffByOne ==
    /\ fn = "GetInnerPeerAddr" /\ pc = "start"
    /\ p' = r
    /\ hops' = HopCount(r) + 1
    /\ addr' = PeerAddr(r)
    /\ i' = 0
    /\ pc' = "gipa_loop"
    /\ UNCHANGED <<fn, r, relayForw, msg, option, relay, linkAddr, peerAddr,
                   optiids, ret, err, decaps, encaps, encFailAt, before>>

GetInnerPeerAddr_Enter ==
    /\ fn = "GetInnerPeerAddr" /\ pc = "start"
    /\ p' = r
    /\ hops' = HopCount(r)
    /\ addr' = PeerAddr(r)
    /\ i' = 0
    /\ pc' = "gipa_loop"
    /\ UNCHANGED <<fn, r, relayForw, msg, option, relay, linkAddr, peerAddr,
                   optiids, ret, err, decaps, encaps, encFailAt, before>>

\* Variant: addr is not updated from the inner envelopes
GetInnerPeerAddr_StepKeepAddr ==
    /\ pc = "gipa_loop"
    /\ i < hops
    /\ LET d == DecapsulateRelay(p) IN
       /\ decaps' = decaps + 1
       /\ p' = d.msg
       /\ IF d.err # NoErr
          THEN /\ Return(nil, d.err)
               /\ UNCHANGED <<addr, i>>
          ELSE IF IsRelay(d.msg)
          THEN /\ i' = (i + 1) % 256
               /\ UNCHANGED <<addr, pc, ret, err>>
          ELSE /\ Return(nil, "Wrong Hop count")
               /\ UNCHANGED <<addr, i>>
    /\ UNCHANGED <<fn, r, relayForw, msg, option, relay, hops, linkAddr, peerAddr,
                   optiids, encaps, encFailAt, before>>

\* Variant: reaching a non-relay message ends the walk with the address so far
GetInnerPeerAddr_StepNoMismatch ==
    /\ pc = "gipa_loop"
    /\ i < hops
    /\ LET d == DecapsulateRelay(p) IN
       /\ decaps' = decaps + 1
       /\ p' = d.msg
       /\ IF d.err # NoErr
          THEN /\ Return(nil, d.err)
               /\ UNCHANGED <<addr, i>>
          ELSE IF IsRelay(d.msg)
          THEN /\ addr' = PeerAddr(d.msg)
               /\ i' = (i + 1) % 256
               /\ UNCHANGED <<pc, ret, err>>
          ELSE /\ Return(addr, NoErr)
               /\ UNCHANGED <<addr, i>>
    /\ UNCHANGED <<fn, r, relayForw, msg, option, relay, hops, linkAddr, peerAddr,
                   optiids, encaps, encFailAt, before>>

GetInnerPeerAddr_Step ==
    /\ pc = "gipa_loop"
    /\ i < hops
    /\ LET d == DecapsulateRelay(p) IN
       /\ decaps' = decaps + 1
       /\ p' = d.msg
       /\ IF d.err # NoErr
          THEN /\ Return(nil, d.err)
               /\ UNCHANGED <<addr, i>>
          ELSE IF IsRelay(d.msg)
          THEN /\ addr' = PeerAddr(d.msg)
               /\ i' = (i + 1) % 256
               /\ UNCHANGED <<pc, ret, err>>
          ELSE /\ Return(nil, "Wrong Hop count")
               /\ UNCHANGED <<addr, i>>
    /\ UNCHANGED <<fn, r, relayForw, msg, option, relay, hops, linkAddr, peerAddr,
                   optiids, encaps, encFailAt, before>>

GetInnerPeerAddr_Return ==
    /\ pc = "gipa_loop"
    /\ ~(i < hops)
    /\ Return(addr, NoErr)
    /\ UNCHANGED <<fn, r, relayForw, msg, option, p, relay, hops, addr, i, linkAddr,
                   peerAddr, optiids, decaps, encaps, encFailAt, before>>

NextWalk ==
    \/ GetInnerMessage_Enter
    \/ GetInnerMessage_Found
    \/ GetInnerMessage_Decap
    \/ GetInnerPeerAddr_Enter
    \/ GetInnerPeerAddr_Step
    \/ GetInnerPeerAddr_Return

SpecWalk == InitWalk /\ [][NextWalk]_vars

----------------------------------------------------------------------------
(* NewRelayReplFromRelayForw: creates a RELAY_REPL packet based on a      *)
(* RELAY_FORW packet and replaces the inner message with the passed one.  *)

Options == {Opt(OPTION_INTERFACE_ID, d) : d \in 1..MaxData} \cup {Opt(OPTION_REMOTE_ID, 1)}

OptLists == UNION {[1..n -> Options] : n \in 0..MaxOpts}

ReplHdrs == UNION {[1..d -> [link : Addr, peer : Addr, options : OptLists]] : d \in 1..MaxDepth}

MessageTypes == {RELAY_FORW, RELAY_REPL, "SOLICIT"}

\* Arguments that pass validation: a RELAY_FORW chain, possibly damaged at
\* its innermost layer, and a leaf answer; EncapsulateRelay may fail at any
\* call of the rewind pass.
ReplValidArgs ==
    /\ \/ /\ relayForw \in {MkChain(h, RELAY_FORW, Message("C")) : h \in ReplHdrs}
          /\ encFailAt \in 0..MaxDepth
       \/ /\ relayForw \in {MkChain(h, RELAY_FORW, t) : h \in ReplHdrs, t \in Broken}
          /\ encFailAt = 0
    /\ msg = Message("R")

\* Arguments of every shape the validation distinguishes
ReplAnyArgs ==
    /\ relayForw \in {nil} \cup Messages
                     \cup {MkChain(h, t, Message("C")) : h \in PlainHdrs, t \in MessageTypes}
    /\ msg \in {nil} \cup Messages
               \cup {MkChain(h, t, Message("R")) : h \in PlainHdrs, t \in {RELAY_FORW, RELAY_REPL}}
    /\ encFailAt = 0

InitRepl ==
    /\ fn = "NewRelayReplFromRelayForw"
    /\ pc = "start"
    /\ r = nil /\ option = nil
    /\ ReplValidArgs \/ ReplAnyArgs
    /\ p = nil /\ relay = nil /\ hops = 0 /\ addr = nil /\ i = 0
    /\ linkAddr = <<>> /\ peerAddr = <<>> /\ optiids = <<>>
    /\ ret = nil /\ err = NoErr /\ decaps = 0 /\ encaps = 0
    /\ before = msg

\* Variant: the answer is validated before the forward chain
NewRelayRepl_EnterAnswerFirst ==
    /\ fn = "NewRelayReplFromRelayForw" /\ pc = "start"
    /\ IF msg = nil
       THEN Return(nil, "The passed message cannot be nil") /\ UNCHANGED relay
       ELSE IF IsRelay(msg)
       THEN Return(nil, "The passed message cannot be a relay") /\ UNCHANGED relay
       ELSE IF relayForw = nil
       THEN Return(nil, "RELAY_FORW cannot be nil") /\ UNCHANGED relay
       ELSE IF ~IsRelay(relayForw)
       THEN Return(nil, "Not a DHCPv6Relay") /\ UNCHANGED relay
       ELSE IF Type(relayForw) # RELAY_FORW
       THEN Return(nil, "The passed packet is not of type RELAY_FORW") /\ UNCHANGED relay
       ELSE /\ relay' = relayForw
            /\ pc' = "unwind"
            /\ UNCHANGED <<ret, err>>
    /\ UNCHANGED <<fn, r, relayForw, msg, option, p, hops, addr, i, linkAddr,
                   peerAddr, optiids, decaps, encaps, encFailAt, before>>

NewRelayRepl_Enter ==
    /\ fn = "NewRelayReplFromRelayForw" /\ pc = "start"
    /\ IF relayForw = nil
       THEN Return(nil, "RELAY_FORW cannot be nil") /\ UNCHANGED relay
       ELSE IF ~IsRelay(relayForw)
       THEN Return(nil, "Not a DHCPv6Relay") /\ UNCHANGED relay
       ELSE IF Type(relayForw) # RELAY_FORW
       THEN Return(nil, "The passed packet is not of type RELAY_FORW") /\ UNCHANGED relay
       ELSE IF msg = nil
       THEN Return(nil, "The passed message cannot be nil") /\ UNCHANGED relay
       ELSE IF IsRelay(msg)
       THEN Return(nil, "The passed message cannot be a relay") /\ UNCHANGED relay
       ELSE /\ relay' = relayForw
            /\ pc' = "unwind"
            /\ UNCHANGED <<ret, err>>
    /\ UNCHANGED <<fn, r, relayForw, msg, option, p, hops, addr, i, linkAddr,
                   peerAddr, optiids, decaps, encaps, encFailAt, before>>

\* Variant: a failed decapsulation ends the unwind pass like a leaf does
NewRelayRepl_UnwindIgnoreErr ==
    /\ pc = "unwind"
    /\ linkAddr' = Append(linkAddr, LinkAddr(relay))
    /\ peerAddr' = Append(peerAddr, PeerAddr(relay))
    /\ optiids' = Append(optiids, GetOneOption(relay, OPTION_INTERFACE_ID))
    /\ LET decap == DecapsulateRelay(relay) IN
       /\ decaps' = decaps + 1
       /\ IF IsRelay(decap.msg)
          THEN relay' = decap.msg /\ UNCHANGED <<pc, ret, err, i>>
          ELSE /\ pc' = "rewind"
               /\ i' = Len(linkAddr')
               /\ UNCHANGED <<relay, ret, err>>
    /\ UNCHANGED <<fn, r, relayForw, msg, option, p, hops, addr, encaps,
                   encFailAt, before>>

NewRelayRepl_Unwind ==
    /\ pc = "unwind"
    /\ linkAddr' = Append(linkAddr, LinkAddr(relay))
    /\ peerAddr' = Append(peerAddr, PeerAddr(relay))
    /\ optiids' = Append(optiids, GetOneOption(relay, OPTION_INTERFACE_ID))
    /\ LET decap == DecapsulateRelay(relay) IN
       /\ decaps' = decaps + 1
       /\ IF decap.err # NoErr
          THEN Return(nil, decap.err) /\ UNCHANGED <<relay, i>>
          ELSE IF IsRelay(decap.msg)
          THEN relay' = decap.msg /\ UNCHANGED <<pc, ret, err, i>>
          ELSE /\ pc' = "rewind"
               /\ i' = Len(linkAddr')
               /\ UNCHANGED <<relay, ret, err>>
    /\ UNCHANGED <<fn, r, relayForw, msg, option, p, hops, addr, encaps,
                   encFailAt, before>>

\* Variant: link and peer address passed to EncapsulateRelay in swapped order
NewRelayRepl_RewindSwapped ==
    /\ pc = "rewind"
    /\ i >= 1
    /\ LET e == EncapsulateRelay(msg, RELAY_REPL, peerAddr[i], linkAddr[i],
                                 encaps + 1 = encFailAt)
           opt == optiids[i]
       IN
       /\ encaps' = encaps + 1
       /\ IF opt # nil /\ e.msg = nil
          THEN /\ pc' = "panic"
               /\ msg' = e.msg
               /\ UNCHANGED <<ret, err, i>>
          ELSE /\ msg' = IF opt # nil THEN AddOption(e.msg, opt) ELSE e.msg
               /\ IF e.err # NoErr
                  THEN Return(nil, e.err) /\ UNCHANGED i
                  ELSE i' = i - 1 /\ UNCHANGED <<pc, ret, err>>
    /\ UNCHANGED <<fn, r, relayForw, option, p, relay, hops, addr, linkAddr,
                   peerAddr, optiids, decaps, encFailAt, before>>

\* One iteration of the rewind loop; i is the 1-based index of the recorded
\* hop (the source's i + 1).  AddOption is called on the result of
\* EncapsulateRelay before its error is examined.
NewRelayRepl_Rewind ==
    /\ pc = "rewind"
    /\ i >= 1
    /\ LET e == EncapsulateRelay(msg, RELAY_REPL, linkAddr[i], peerAddr[i],
                                 encaps + 1 = encFailAt)
           opt == optiids[i]
       IN
       /\ encaps' = encaps + 1
       /\ IF opt # nil /\ e.msg = nil
          THEN /\ pc' = "panic"
               /\ msg' = e.msg
               /\ UNCHANGED <<ret, err, i>>
          ELSE /\ msg' = IF opt # nil THEN AddOption(e.msg, opt) ELSE e.msg
               /\ IF e.err # NoErr
                  THEN Return(nil, e.err) /\ UNCHANGED i
                  ELSE i' = i - 1 /\ UNCHANGED <<pc, ret, err>>
    /\ UNCHANGED <<fn, r, relayForw, option, p, relay, hops, addr, linkAddr,
                   peerAddr, optiids, decaps, encFailAt, before>>

NewRelayRepl_Return ==
    /\ pc = "rewind"
    /\ ~(i >= 1)
    /\ Return(msg, NoErr)
    /\ UNCHANGED <<fn, r, relayForw, msg, option, p, relay, hops, addr, i, linkAddr,
                   peerAddr, optiids, decaps, encaps, encFailAt, before>>

NextRepl ==
    \/ NewRelayRepl_Enter
    \/ NewRelayRepl_Unwind
    \/ NewRelayRepl_Rewind
    \/ NewRelayRepl_Return

SpecRepl == InitRepl /\ [][NextRepl]_vars

----------------------------------------------------------------------------
(* AddOption / UpdateOption on one envelope *)

MethodLists == UNION {[1..n -> Options] : n \in 0..(MaxOpts + 1)}

InitOpt ==
    /\ fn \in {"AddOption", "UpdateOption"}
    /\ pc = "start"
    /\ r \in {DHCPv6Relay(RELAY_FORW, 0, a, a, l, Message("C")) : a \in {IP(1)}, l \in MethodLists}
    /\ option \in Options
    /\ before = r.options
    /\ relayForw = nil /\ msg = nil
    /\ p = nil /\ relay = nil /\ hops = 0 /\ addr = nil /\ i = 0
    /\ linkAddr = <<>> /\ peerAddr = <<>> /\ optiids = <<>>
    /\ ret = nil /\ err = NoErr /\ decaps = 0 /\ encaps = 0
    /\ encFailAt = 0

AddOption_Call ==
    /\ fn = "AddOption" /\ pc = "start"
    /\ r' = AddOption(r, option)
    /\ pc' = "done"
    /\ UNCHANGED <<fn, relayForw, msg, option, p, relay, hops, addr, i, linkAddr,
                   peerAddr, optiids, ret, err, decaps, encaps, encFailAt, before>>

UpdateOption_Call ==
    /\ fn = "UpdateOption" /\ pc = "start"
    /\ r' = UpdateOption(r, option)
    /\ pc' = "done"
    /\ UNCHANGED <<fn, relayForw, msg, option, p, relay, hops, addr, i, linkAddr,
                   peerAddr, optiids, ret, err, decaps, encaps, encFailAt, before>>

NextOpt ==
    \/ AddOption_Call
    \/ UpdateOption_Call

SpecOpt == InitOpt /\ [][NextOpt]_vars

----------------------------------------------------------------------------
(* The whole file: every function, each on its own inputs *)

Init == InitWalk \/ InitRepl \/ InitOpt

Next == NextWalk \/ NextRepl \/ NextOpt

Spec == Init /\ [][Next]_vars

\* A called function keeps running until it returns
FairSpecWalk == SpecWalk /\ WF_vars(NextWalk)

----------------------------------------------------------------------------
(* Properties *)

Done(f) == fn = f /\ pc = "done"

\* The error DecapsulateRelay reports on a chain damaged at its innermost layer
DamageError(m) ==
    IF Terminal(m).kind = "truncated" THEN ErrTruncated ELSE ErrMalformed

\* The arguments of NewRelayReplFromRelayForw pass its validation
ValidArgs ==
    /\ relayForw # nil /\ IsRelay(relayForw) /\ Type(relayForw) = RELAY_FORW
    /\ before # nil /\ ~IsRelay(before)

\* No EncapsulateRelay call of the rewind pass fails
EncapsSucceed == encFailAt = 0 \/ encFailAt > Depth(relayForw)

HasCode(options, code) == \E j \in 1..Len(options) : options[j].code = code

FirstWith(options, code) ==
    options[CHOOSE j \in 1..Len(options) :
                /\ options[j].code = code
                /\ \A k \in 1..(j - 1) : options[k].code # code]

\* C1: on a well-formed depth-D RELAY_FORW chain and a leaf answer M, with
\* the primitives succeeding, NewRelayReplFromRelayForw returns a chain of
\* exactly D envelopes, all RELAY_REPL, envelope k carrying the link and peer
\* address of forward envelope k, the innermost one directly wrapping M.
C1_ReplyMirrorsForward ==
    (Done("NewRelayReplFromRelayForw") /\ ValidArgs /\ WellFormed(relayForw) /\ EncapsSucceed)
    => /\ err = NoErr
       /\ Depth(ret) = Depth(relayForw)
       /\ \A k \in 0..(Depth(relayForw) - 1) :
            /\ Type(Env(ret, k)) = RELAY_REPL
            /\ LinkAddr(Env(ret, k)) = LinkAddr(Env(relayForw, k))
            /\ PeerAddr(Env(ret, k)) = PeerAddr(Env(relayForw, k))
       /\ Env(ret, Depth(relayForw)) = before

C1_Witness ==
    /\ Done("NewRelayReplFromRelayForw") /\ err = NoErr
    /\ Depth(relayForw) = 2 /\ Depth(ret) = 2
    /\ LinkAddr(relayForw) # PeerAddr(relayForw)
    /\ LinkAddr(Env(relayForw, 1)) # LinkAddr(relayForw)
    /\ PeerAddr(Env(relayForw, 1)) # PeerAddr(relayForw)

\* C2 as stated: with outer hopCount = D on a well-formed chain of depth D,
\* GetInnerPeerAddr succeeds and returns the innermost envelope's peer address.
C2_HopCountEqualsDepth ==
    (Done("GetInnerPeerAddr") /\ WellFormed(r) /\ HopCount(r) = Depth(r))
    => /\ err = NoErr
       /\ ret = PeerAddr(Env(r, Depth(r) - 1))

\* C2 amended: with outer hopCount = D - 1 (the relay layers between the
\* outermost envelope and the client) on a well-formed chain of depth D,
\* GetInnerPeerAddr succeeds and returns the peer address of the innermost
\* (Dth) envelope; with hopCount = D it fails with "Wrong Hop count".
C2_HopCountIsLayersBelow ==
    /\ (Done("GetInnerPeerAddr") /\ WellFormed(r) /\ HopCount(r) = Depth(r) - 1)
       => /\ err = NoErr
          /\ ret = PeerAddr(Env(r, Depth(r) - 1))
    /\ (Done("GetInnerPeerAddr") /\ WellFormed(r) /\ HopCount(r) = Depth(r))
       => /\ err = "Wrong Hop count"
          /\ ret = nil

C2_Witness ==
    /\ Done("GetInnerPeerAddr") /\ WellFormed(r)
    /\ Depth(r) = 2 /\ HopCount(r) = 1
    /\ PeerAddr(r) # PeerAddr(Env(r, 1))
    /\ ret = PeerAddr(Env(r, 1))

\* C3: on a well-formed chain of depth D whose outermost envelope declares a
\* hopCount larger than D, GetInnerPeerAddr returns no address and fails with
\* the hop-count mismatch error.
C3_HopCountTooLarge ==
    (Done("GetInnerPeerAddr") /\ WellFormed(r) /\ HopCount(r) > Depth(r))
    => /\ ret = nil
       /\ err = "Wrong Hop count"

C3_Witness ==
    /\ Done("GetInnerPeerAddr") /\ WellFormed(r)
    /\ HopCount(r) > Depth(r) /\ Depth(r) = 2
    /\ err = "Wrong Hop count"

\* C4: on a well-formed chain of depth D, GetInnerMessage terminates, never
\* makes more than D DecapsulateRelay calls, and returns exactly the leaf
\* message with no error after exactly D calls.
C4_InnerMessageIsLeaf ==
    /\ [](( fn = "GetInnerMessage" /\ WellFormed(r))
          => /\ decaps <= Depth(r)
             /\ pc = "done" => /\ ret = Terminal(r)
                               /\ ~IsRelay(ret)
                               /\ err = NoErr
                               /\ decaps = Depth(r))
    /\ (fn = "GetInnerMessage" /\ WellFormed(r)) => <>(pc = "done")

C4_Witness ==
    /\ Done("GetInnerMessage") /\ WellFormed(r)
    /\ Depth(r) = 2 /\ decaps = 2 /\ ret = Message("C")

\* The error the validation of NewRelayReplFromRelayForw must report: the
\* first violated precondition, in the order forward nil, forward not a
\* relay, forward not RELAY_FORW, answer nil, answer a relay.
FirstViolation ==
    IF relayForw = nil THEN "RELAY_FORW cannot be nil"
    ELSE IF ~IsRelay(relayForw) THEN "Not a DHCPv6Relay"
    ELSE IF Type(relayForw) # RELAY_FORW THEN "The passed packet is not of type RELAY_FORW"
    ELSE IF before = nil THEN "The passed message cannot be nil"
    ELSE IF IsRelay(before) THEN "The passed message cannot be a relay"
    ELSE NoErr

\* C5: NewRelayReplFromRelayForw rejects invalid arguments before any
\* decapsulation or encapsulation, with nil result and the error of the first
\* violated precondition; the five errors are pairwise distinct.
C5_ValidationOrder ==
    (fn = "NewRelayReplFromRelayForw" /\ pc # "start" /\ FirstViolation # NoErr)
    => /\ pc = "done"
       /\ ret = nil
       /\ err = FirstViolation
       /\ decaps = 0 /\ encaps = 0
       /\ Cardinality({"RELAY_FORW cannot be nil", "Not a DHCPv6Relay",
                       "The passed packet is not of type RELAY_FORW",
                       "The passed message cannot be nil",
                       "The passed message cannot be a relay"}) = 5

C5_Witness ==
    /\ Done("NewRelayReplFromRelayForw")
    /\ IsRelay(relayForw) /\ Type(relayForw) = RELAY_REPL /\ before = nil
    /\ err = "The passed packet is not of type RELAY_FORW"

\* C6: in the chain returned by NewRelayReplFromRelayForw, reply envelope k
\* carries exactly the first interface-id option of forward envelope k when
\* that envelope has one, and no option otherwise.
C6_OnlyFirstInterfaceId ==
    (Done("NewRelayReplFromRelayForw") /\ ValidArgs /\ WellFormed(relayForw) /\ EncapsSucceed)
    => /\ Depth(ret) = Depth(relayForw)
       /\ \A k \in 0..(Depth(relayForw) - 1) :
            Env(ret, k).options =
                IF HasCode(Env(relayForw, k).options, OPTION_INTERFACE_ID)
                THEN <<FirstWith(Env(relayForw, k).options, OPTION_INTERFACE_ID)>>
                ELSE <<>>

C6_Witness ==
    /\ Done("NewRelayReplFromRelayForw") /\ err = NoErr
    /\ Depth(relayForw) = 2
    /\ relayForw.options = <<Opt(OPTION_REMOTE_ID, 1)>>
    /\ Env(relayForw, 1).options = <<Opt(OPTION_INTERFACE_ID, 2), Opt(OPTION_INTERFACE_ID, 1)>>
    /\ ret.options = <<>>
    /\ Env(ret, 1).options = <<Opt(OPTION_INTERFACE_ID, 2)>>

\* C7: NewRelayReplFromRelayForw never panics; when an EncapsulateRelay call
\* of the rewind pass fails, it returns nil and that error.
C7_EncapsulateFailureReturned ==
    fn = "NewRelayReplFromRelayForw"
    => /\ pc # "panic"
       /\ (pc = "done" /\ ValidArgs /\ WellFormed(relayForw) /\ ~EncapsSucceed)
          => (ret = nil /\ err = ErrEncapsulate)

\* C8: when DecapsulateRelay fails at hop k, each of GetInnerMessage,
\* GetInnerPeerAddr and NewRelayReplFromRelayForw returns nil and exactly
\* that error after exactly k DecapsulateRelay calls, and no EncapsulateRelay
\* call is made.
C8_DecapsulateFailureReturned ==
    /\ (fn = "GetInnerMessage" /\ IsRelay(r) /\ ~WellFormed(r))
       => /\ decaps <= Depth(r) /\ encaps = 0
          /\ pc = "done" => (ret = nil /\ err = DamageError(r) /\ decaps = Depth(r))
    /\ (fn = "GetInnerPeerAddr" /\ IsRelay(r) /\ ~WellFormed(r) /\ HopCount(r) >= Depth(r))
       => /\ decaps <= Depth(r) /\ encaps = 0
          /\ pc = "done" => (ret = nil /\ err = DamageError(r) /\ decaps = Depth(r))
    /\ (fn = "NewRelayReplFromRelayForw" /\ ValidArgs /\ ~WellFormed(relayForw))
       => /\ decaps <= Depth(relayForw) /\ encaps = 0
          /\ pc \in {"start", "unwind", "done"}
          /\ pc = "done" => (ret = nil /\ err = DamageError(relayForw)
                             /\ decaps = Depth(relayForw))

C8_Witness ==
    /\ Done("NewRelayReplFromRelayForw") /\ ValidArgs
    /\ Depth(relayForw) = 2 /\ Terminal(relayForw).kind = "truncated"
    /\ err = ErrTruncated /\ decaps = 2

\* C9: UpdateOption(opt) appends opt when no option of r has opt's code
\* (the list AddOption(opt) yields); otherwise it replaces the first option
\* with that code and leaves the length and every other position unchanged.
C9_UpdateOption ==
    Done("UpdateOption")
    => IF ~HasCode(before, option.code)
       THEN /\ Len(r.options) = Len(before) + 1
            /\ r.options = before \o <<option>>
       ELSE /\ Len(r.options) = Len(before)
            /\ \E f \in 1..Len(before) :
                 /\ before[f].code = option.code
                 /\ \A j \in 1..(f - 1) : before[j].code # option.code
                 /\ r.options[f] = option
                 /\ \A j \in 1..Len(before) : j # f => r.options[j] = before[j]

C9_Witness ==
    /\ Done("UpdateOption")
    /\ before = <<Opt(OPTION_REMOTE_ID, 1), Opt(OPTION_INTERFACE_ID, 1), Opt(OPTION_INTERFACE_ID, 1)>>
    /\ option = Opt(OPTION_INTERFACE_ID, 2)
    /\ r.options = <<Opt(OPTION_REMOTE_ID, 1), Opt(OPTION_INTERFACE_ID, 2), Opt(OPTION_INTERFACE_ID, 1)>>

====
